---- MODULE Spec2Model ----
(***************************************************************************)
(* State-machine model of the yoroi-frontend TransactionsStore             *)
(* (src/app/stores/base/TransactionsStore.js): the export pipeline, the    *)
(* per-wallet request bundles, the search options and the computed views.  *)
(***************************************************************************)
EXTENDS Naturals, Sequences, FiniteSets, Bags

(***************************************************************************)
(* Bounds of the model.                                                    *)
(***************************************************************************)
\* export attempts started in one behaviour
MaxAttempts == 2
\* dialogs.closeActiveDialog signals a user-requested close may add up to
MaxCloseSignals == 2
\* length of the walletIds list given to updateObservedWallets
MaxLen == 2
\* refresh chains of one wallet in flight at the same time
MaxChains == 1
\* calls of loadMoreTransactions per wallet
MaxLoadMore == 2
\* update handlers of the settings store in flight at the same time
MaxUpdates == 2

(***************************************************************************)
(* Export pipeline: values.                                                *)
(***************************************************************************)
\* new LocalizableError(globalMessages.noTransactionsFound)
NoTransactionsFound == "noTransactionsFound"
\* new UnexpectedError()
UnexpectedError == "UnexpectedError"
\* a LocalizableError rejected by a request (a domain error of the api)
ApiError == "apiError"
\* an error that is not an instance of LocalizableError
RawError == "rawError"
\* no error thrown
NoThrow == "none"

ThrownErrors == {ApiError, RawError}

\* error instanceof LocalizableError (UnexpectedError extends LocalizableError)
IsLocalizableError(error) == error \in {NoTransactionsFound, UnexpectedError, ApiError}

\* exportError: ?LocalizableError is undefined until first assigned, null after a close
Undefined == "undefined"
Null == "null"
Unset == {Undefined, Null}

\* GetTransactionRowsToExportResponse as the api may resolve it: absent, or a list of rows
RowsResponses ==
  { [isNull |-> TRUE, rows |-> <<>>],
    [isNull |-> FALSE, rows |-> <<>>],
    [isNull |-> FALSE, rows |-> <<"row">>] }

\* how a request's promise settles: resolved, or rejected with an error
Resolved == "resolved"
Rejected == "rejected"

VARIABLES
  isExporting,                        \* @observable isExporting
  exportError,                        \* @observable exportError
  getTransactionRowsToExportRequest,  \* state of the LocalizedRequest object
  exportTransactions,                 \* state of the LocalizedRequest object
  attempts,                           \* the invocations of _exportTransactionsToFile
  closeActiveDialog,                  \* number of dialogs.closeActiveDialog triggers
  last                                \* the handler step taken last, with the state before it

exportVars == <<isExporting, exportError, getTransactionRowsToExportRequest,
                exportTransactions, attempts, closeActiveDialog, last>>

(***************************************************************************)
(* Transactions: values.                                                   *)
(***************************************************************************)
\* How many transactions to display
INITIAL_SEARCH_LIMIT == 5
\* How many additional transactions to display when the user wants to show more
SEARCH_LIMIT_INCREASE == 5
\* Skip first n transactions from api
SEARCH_SKIP == 0

\* the wallet ids of the model
Wallets == {"w1", "w2"}
\* wallets.active is null
NoWallet == "none"

\* the lists updateObservedWallets may be given (an id may be repeated)
WalletIdLists == UNION {[1..n -> Wallets] : n \in 0..MaxLen}

\* a request's result: None until a fetch resolved, then Some(value)
None == <<>>
Some(value) == <<value>>

\* the transaction lists the api may resolve a fetch with
TransactionLists == {<<>>, <<"tx">>}
\* the balances the api may resolve getBalance with
Balances == {"balance"}

\* new CachedRequest(...): no result, no call waiting for its response
NewCachedRequest == [result |-> None, waiting |-> FALSE]

\* execute(args) after invalidate(): a call is started unless one is waiting already
Execute(request) == [request EXCEPT !.waiting = TRUE]
\* the call resolves: the result is cached
Resolve(request, value) == [result |-> Some(value), waiting |-> FALSE]
\* the call rejects: the cached result stays
Reject(request) == [request EXCEPT !.waiting = FALSE]
\* execute(args) without invalidate(): no call is made when the arguments are those
\* of the last call and its result is cached
CacheHit(request, sameArgs) == sameArgs /\ ~request.waiting /\ request.result # None

\* the four requests a bundle holds when none of them is taken over
NewBundleRequests == [recent |-> NewCachedRequest, all |-> NewCachedRequest,
                      pending |-> NewCachedRequest, balance |-> NewCachedRequest]

\* identities of request objects: 0 is a request created on the fly by a getter
\* (held by no bundle), the others are the requests of the bundles
RequestIds == 1..(2 * MaxLen + MaxChains * Cardinality(Wallets))

VARIABLES
  active,                    \* wallets.active: the id of the active wallet, or NoWallet
  all,                       \* wallets.all: the ids of the wallets store's wallets
  transactionsRequests,      \* @observable transactionsRequests: <<[walletId, req]>>
  requests,                  \* the request objects of the bundles: req -> the four requests
  _searchOptionsForWallets,  \* @observable _searchOptionsForWallets
  _hasAnyPending,            \* the uncached field _hasAnyPending
  chains,                    \* the promise chains of _refreshTransactionData in flight
  updateBalance,             \* the walletsActions.updateBalance triggers: [wallet, active]
  seenPending,               \* wallets whose hasAnyPending was computed true from a result
  recentParams,              \* the requestParams of the recent fetches of the last refresh
  lastTx                     \* the store step taken last

txVars == <<active, all, transactionsRequests, requests, _searchOptionsForWallets,
            _hasAnyPending, chains, updateBalance, seenPending, recentParams, lastTx>>

(***************************************************************************)
(* Settings: values.                                                       *)
(***************************************************************************)
\* the settings kept in local storage that the store reads and writes
Settings == {"locale", "terms"}
\* the locales local storage holds: none set, or one of LANGUAGE_OPTIONS
Locales == {"", "en-US", "ja-JP"}
\* the terms-of-use acceptance local storage holds: the booleans false and true
Acceptances == {"false", "true"}
ValuesOf(setting) == IF setting = "locale" THEN Locales ELSE Acceptances
\* ROUTES.PROFILE.LANGUAGE_SELECTION, ROUTES.PROFILE.TERMS_OF_USE, ROUTES.WALLETS.ROOT
LANGUAGE_SELECTION == "/profile/language-selection"
TERMS_OF_USE == "/profile/terms-of-use"
ROOT == "/wallets"
\* the routes of the app: the three above and any other one
Routes == {LANGUAGE_SELECTION, TERMS_OF_USE, ROOT, "/settings"}

\* a new Request: not executed, no result
NewRequest == [result |-> Null, wasExecuted |-> FALSE, isExecuting |-> FALSE, call |-> None]
\* request.execute(...): starts a call, or joins the call in flight
ExecuteRequest(request, call) ==
  IF request.isExecuting THEN request
  ELSE [request EXCEPT !.isExecuting = TRUE, !.call = Some(call)]
\* the call of a request resolves with value
ResolveRequest(request, value) ==
  [result |-> value, wasExecuted |-> TRUE, isExecuting |-> FALSE, call |-> None]
\* the call of a request rejects
RejectRequest(request) == [request EXCEPT !.isExecuting = FALSE, !.call = None]

VARIABLES
  isSetup,        \* setup() ran: the listeners and the reactions are registered
  localStorage,   \* api.localStorage: setting -> the stored value
  getRequests,    \* getProfileLocaleRequest and getTermsOfUseAcceptanceRequest
  setRequests,    \* setProfileLocaleRequest and setTermsOfUseAcceptanceRequest
  updates,        \* the invocations of _updateLocale and _acceptTermsOfUse in flight
  isLoading,      \* stores.loading.isLoading
  currentRoute,   \* stores.app.currentRoute
  goToRoute,      \* the routes of the router.goToRoute triggers of the step taken last
  written,        \* the settings a handler has written to local storage
  lastSettings    \* the store step taken last

settingsVars == <<isSetup, localStorage, getRequests, setRequests, updates, isLoading,
                  currentRoute, goToRoute, written, lastSettings>>

vars == <<exportVars, txVars, settingsVars>>

\* the observable export state and the signal count, as recorded before a step
ExportView == [isExporting |-> isExporting, exportError |-> exportError,
               closeActiveDialog |-> closeActiveDialog]

Step(op, attempt) == [op |-> op, attempt |-> attempt, pre |-> ExportView]

\* respTxRows == null || respTxRows.length < 1
NoRowsMutant(respTxRows) == respTxRows.isNull
NoRows(respTxRows) == respTxRows.isNull \/ Len(respTxRows.rows) < 1

\* the catch block's classification of the thrown error
LocalizableOf(error) == IF ~IsLocalizableError(error) THEN UnexpectedError ELSE error

InitExport ==
  /\ isExporting = FALSE
  /\ exportError = Undefined
  /\ getTransactionRowsToExportRequest = "reset"
  /\ exportTransactions = "reset"
  /\ attempts = <<>>
  /\ closeActiveDialog = 0
  /\ last = [op |-> "init", attempt |-> 0,
             pre |-> [isExporting |-> FALSE, exportError |-> Undefined,
                      closeActiveDialog |-> 0]]

\* _exportTransactionsToFile up to its first await: the flag is set, both requests
\* are reset and the row fetch is started
_exportTransactionsToFile ==
  /\ Len(attempts) < MaxAttempts
  /\ isExporting' = TRUE
  /\ getTransactionRowsToExportRequest' = "executing"
  /\ exportTransactions' = "reset"
  /\ attempts' = Append(attempts, [pc |-> "fetchRows",
                                   rowsPromise |-> "pending",
                                   respTxRows |-> [isNull |-> TRUE, rows |-> <<>>],
                                   thrown |-> NoThrow])
  /\ last' = Step("start", Len(attempts) + 1)
  /\ UNCHANGED <<exportError, closeActiveDialog>>
  /\ UNCHANGED <<txVars, settingsVars>>

\* the catch block followed by the finally block
ExportCatchMutant(i, rowsPromise, respTxRows, error) ==
  /\ exportError' = LocalizableOf(error)
  /\ isExporting' = FALSE
  /\ attempts' = [attempts EXCEPT ![i].pc = "failed", ![i].rowsPromise = rowsPromise,
                                  ![i].respTxRows = respTxRows, ![i].thrown = error]
  /\ getTransactionRowsToExportRequest' = "reset"
  /\ exportTransactions' = "reset"
  /\ closeActiveDialog' = closeActiveDialog + 1
ExportCatch(i, rowsPromise, respTxRows, error) ==
  /\ exportError' = LocalizableOf(error)
  /\ isExporting' = FALSE
  /\ attempts' = [attempts EXCEPT ![i].pc = "failed", ![i].rowsPromise = rowsPromise,
                                  ![i].respTxRows = respTxRows, ![i].thrown = error]
  /\ getTransactionRowsToExportRequest' = "reset"
  /\ exportTransactions' = "reset"
  /\ UNCHANGED closeActiveDialog

\* the row fetch resolves: either the "no transactions" error is thrown and caught,
\* or the timer is set; the finally block resets both requests
RowsResolved(i, respTxRows) ==
  /\ attempts[i].pc = "fetchRows"
  /\ last' = Step("rowsResolved", i)
  /\ UNCHANGED <<txVars, settingsVars>>
  /\ IF NoRows(respTxRows)
       THEN /\ ExportCatch(i, Resolved, respTxRows, NoTransactionsFound)
       ELSE /\ attempts' = [attempts EXCEPT ![i].pc = "delay",
                                            ![i].rowsPromise = Resolved,
                                            ![i].respTxRows = respTxRows]
            /\ getTransactionRowsToExportRequest' = "reset"
            /\ exportTransactions' = "reset"
            /\ UNCHANGED <<isExporting, exportError, closeActiveDialog>>

\* the row fetch rejects: the await throws inside the try block
RowsRejected(i, error) ==
  /\ attempts[i].pc = "fetchRows"
  /\ last' = Step("rowsRejected", i)
  /\ UNCHANGED <<txVars, settingsVars>>
  /\ ExportCatch(i, Rejected, attempts[i].respTxRows, error)

\* the 800 ms timer fires: the callback starts the file export and awaits it
ExportTimerFires(i) ==
  /\ attempts[i].pc = "delay"
  /\ attempts' = [attempts EXCEPT ![i].pc = "exportFile"]
  /\ exportTransactions' = "executing"
  /\ last' = Step("timer", i)
  /\ UNCHANGED <<txVars, settingsVars>>
  /\ UNCHANGED <<isExporting, exportError, getTransactionRowsToExportRequest,
                 closeActiveDialog>>

\* the file export resolves: the flag is cleared and the dialog close is signalled
ExportResolved(i) ==
  /\ attempts[i].pc = "exportFile"
  /\ isExporting' = FALSE
  /\ closeActiveDialog' = closeActiveDialog + 1
  /\ attempts' = [attempts EXCEPT ![i].pc = "done"]
  /\ exportTransactions' = Resolved
  /\ last' = Step("exportResolved", i)
  /\ UNCHANGED <<txVars, settingsVars>>
  /\ UNCHANGED <<exportError, getTransactionRowsToExportRequest>>

\* the file export rejects: the await throws inside the timer callback, outside the
\* try block of _exportTransactionsToFile; the rest of the callback is skipped
ExportRejected(i, error) ==
  /\ attempts[i].pc = "exportFile"
  /\ attempts' = [attempts EXCEPT ![i].pc = "rejected", ![i].thrown = error]
  /\ exportTransactions' = Rejected
  /\ last' = Step("exportRejected", i)
  /\ UNCHANGED <<txVars, settingsVars>>
  /\ UNCHANGED <<isExporting, exportError, getTransactionRowsToExportRequest,
                 closeActiveDialog>>

_closeExportTransactionDialogMutant ==
  /\ closeActiveDialog < MaxCloseSignals + MaxAttempts
  /\ closeActiveDialog' = closeActiveDialog + 1
  /\ isExporting' = FALSE
  /\ exportError' = Null
  /\ last' = Step("close", 0)
  /\ UNCHANGED <<getTransactionRowsToExportRequest, exportTransactions, attempts>>
  /\ UNCHANGED <<txVars, settingsVars>>

_closeExportTransactionDialog ==
  /\ last' = Step("close", 0)
  /\ IF ~isExporting
       THEN /\ closeActiveDialog < MaxCloseSignals + MaxAttempts
            /\ closeActiveDialog' = closeActiveDialog + 1
            /\ isExporting' = FALSE
            /\ exportError' = Null
       ELSE UNCHANGED <<closeActiveDialog, isExporting, exportError>>
  /\ UNCHANGED <<getTransactionRowsToExportRequest, exportTransactions, attempts>>
  /\ UNCHANGED <<txVars, settingsVars>>

NextExport ==
  \/ _exportTransactionsToFile
  \/ \E i \in DOMAIN attempts : \E respTxRows \in RowsResponses : RowsResolved(i, respTxRows)
  \/ \E i \in DOMAIN attempts : \E error \in ThrownErrors : RowsRejected(i, error)
  \/ \E i \in DOMAIN attempts : ExportTimerFires(i)
  \/ \E i \in DOMAIN attempts : ExportResolved(i)
  \/ \E i \in DOMAIN attempts : \E error \in ThrownErrors : ExportRejected(i, error)
  \/ _closeExportTransactionDialog

(***************************************************************************)
(* Transactions: request lookup, search options and computed views.        *)
(***************************************************************************)
\* the record of a store step: the handler, its argument, and the bundle set and the
\* request objects it found
TxStep(op, walletIds, bundles, reqs) ==
  [op |-> op, walletIds |-> walletIds, transactionsRequests |-> bundles, requests |-> reqs]

\* _.find(this.transactionsRequests, { walletId }): the index of the first bundle
\* of the wallet, 0 when there is none
FindIndex(bundles, walletId) ==
  LET ks == {k \in DOMAIN bundles : bundles[k].walletId = walletId}
  IN IF ks = {} THEN 0 ELSE CHOOSE k \in ks : \A j \in ks : k <= j

\* the identity of the requests the getters return for walletId: those of the found
\* bundle, or 0 for requests created on the fly
FoundRequest(bundles, walletId) ==
  LET k == FindIndex(bundles, walletId)
  IN IF k = 0 THEN 0 ELSE bundles[k].req

_getTransactionsPendingRequest(walletId) ==
  LET foundRequest == FoundRequest(transactionsRequests, walletId)
  IN IF foundRequest # 0 THEN requests[foundRequest].pending ELSE NewCachedRequest

_getTransactionsRecentRequest(walletId) ==
  LET foundRequest == FoundRequest(transactionsRequests, walletId)
  IN IF foundRequest # 0 THEN requests[foundRequest].recent ELSE NewCachedRequest

_getTransactionsAllRequest(walletId) ==
  LET foundRequest == FoundRequest(transactionsRequests, walletId)
  IN IF foundRequest # 0 THEN requests[foundRequest].all ELSE NewCachedRequest

_getBalanceRequest(walletId) ==
  LET foundRequest == FoundRequest(transactionsRequests, walletId)
  IN IF foundRequest # 0 THEN requests[foundRequest].balance ELSE NewCachedRequest

\* the search options object after the getter searchOptions ran with wallet active:
\* the wallet's pair is created when it has none
WithSearchOptions(options, wallet) ==
  IF wallet = NoWallet \/ wallet \in DOMAIN options
    THEN options
    ELSE [w \in DOMAIN options \cup {wallet} |->
            IF w = wallet
              THEN [limit |-> INITIAL_SEARCH_LIMIT, skip |-> SEARCH_SKIP]
              ELSE options[w]]

\* this.searchOptions.limit += this.SEARCH_LIMIT_INCREASE
IncreasedLimitMutant(limit) == limit + 1
IncreasedLimit(limit) == limit + SEARCH_LIMIT_INCREASE

recent ==
  IF active = NoWallet THEN <<>>
  ELSE LET result == _getTransactionsRecentRequest(active).result
       IN IF result # None THEN result[1] ELSE <<>>

hasAny ==
  IF active = NoWallet THEN FALSE
  ELSE LET result == _getTransactionsRecentRequest(active).result
       IN IF result # None THEN Len(result[1]) > 0 ELSE FALSE

totalAvailable ==
  IF active = NoWallet THEN 0
  ELSE LET result == _getTransactionsAllRequest(active).result
       IN IF result # None THEN Len(result[1]) ELSE 0

\* the value of the field _hasAnyPending after the getter hasAnyPending ran
StickyPending ==
  IF active = NoWallet THEN _hasAnyPending
  ELSE LET result == _getTransactionsPendingRequest(active).result
       IN IF result # None THEN Len(result[1]) > 0 ELSE _hasAnyPending

\* the value the getter hasAnyPending returns
HasAnyPendingValue == IF active = NoWallet THEN FALSE ELSE StickyPending

\* the active wallet has a cached pending result with at least one entry
PendingCachedTrue ==
  /\ active # NoWallet
  /\ _getTransactionsPendingRequest(active).result # None
  /\ Len(_getTransactionsPendingRequest(active).result[1]) > 0

(***************************************************************************)
(* Transactions: the handlers.                                             *)
(***************************************************************************)
\* the request identities in use: those of the bundles and those a chain waits on
UsedIds == DOMAIN requests \cup {c.req : c \in BagToSet(chains)}

\* the n-th smallest request identity outside used
RECURSIVE NthFree(_, _)
NthFree(used, n) ==
  LET first == CHOOSE x \in RequestIds \ used : \A y \in RequestIds \ used : x <= y
  IN IF n <= 1 THEN first ELSE NthFree(used \cup {first}, n - 1)

\* walletIds.map(walletId => ({ walletId, recentRequest: this._get...(walletId), ... })):
\* each getter returns the request of the bundle tracked so far, or a new request
NewBundlesFresh(walletIds) ==
  [k \in 1..Len(walletIds) |-> [walletId |-> walletIds[k], req |-> NthFree(UsedIds, k)]]
NewBundlesMerge(walletIds) ==
  LET fresh(k) == Cardinality({j \in 1..k : FoundRequest(transactionsRequests, walletIds[j]) = 0})
  IN SelectSeq(transactionsRequests,
               LAMBDA b : \A k \in 1..Len(walletIds) : walletIds[k] # b.walletId)
     \o [k \in 1..Len(walletIds) |->
           [walletId |-> walletIds[k],
            req |-> IF FoundRequest(transactionsRequests, walletIds[k]) # 0
                      THEN FoundRequest(transactionsRequests, walletIds[k])
                      ELSE NthFree(UsedIds, fresh(k))]]
NewBundles(walletIds) ==
  LET fresh(k) == Cardinality({j \in 1..k : FoundRequest(transactionsRequests, walletIds[j]) = 0})
  IN [k \in 1..Len(walletIds) |->
        [walletId |-> walletIds[k],
         req |-> IF FoundRequest(transactionsRequests, walletIds[k]) # 0
                   THEN FoundRequest(transactionsRequests, walletIds[k])
                   ELSE NthFree(UsedIds, fresh(k))]]

\* the request objects the bundles hold: those taken over keep their state
BundleRequests(bundles) ==
  [id \in {bundles[k].req : k \in DOMAIN bundles} |->
     IF id \in DOMAIN requests THEN requests[id] ELSE NewBundleRequests]

\* _refreshTransactionData, the loop: the requests after recent and all were
\* invalidated and executed for every wallet of wallets.all
RefreshedRequestsMutant(reqs, bundles) ==
  [id \in DOMAIN reqs |->
     IF \E wallet \in all : FoundRequest(bundles, wallet) = id
       THEN [reqs[id] EXCEPT !.recent = Execute(@), !.all = Execute(@),
                             !.pending = Execute(@)]
       ELSE reqs[id]]
RefreshedRequests(reqs, bundles) ==
  [id \in DOMAIN reqs |->
     IF \E wallet \in all : FoundRequest(bundles, wallet) = id
       THEN [reqs[id] EXCEPT !.recent = Execute(@), !.all = Execute(@)]
       ELSE reqs[id]]

\* _refreshTransactionData, the loop: one chain per wallet of wallets.all is
\* attached to the promise of the wallet's all request
RefreshedChains(bundles) ==
  chains (+) SetToBag({[wallet |-> wallet, pc |-> "all", req |-> FoundRequest(bundles, wallet)] :
                         wallet \in all})

\* _refreshTransactionData, the loop: this.searchOptions is read in every iteration
RefreshedOptions(options) ==
  IF all = {} THEN options ELSE WithSearchOptions(options, active)

\* the chains of a wallet in flight
ChainsOf(wallet) ==
  BagCardinality([c \in {x \in BagToSet(chains) : x.wallet = wallet} |-> CopiesIn(c, chains)])

\* room for the chains one more refresh attaches
RoomForRefresh == \A wallet \in all : ChainsOf(wallet) < MaxChains

updateObservedWallets(walletIds) ==
  LET bundles == NewBundles(walletIds)
  IN /\ RoomForRefresh
     /\ transactionsRequests' = bundles
     /\ requests' = RefreshedRequests(BundleRequests(bundles), bundles)
     /\ chains' = RefreshedChains(bundles)
     /\ _searchOptionsForWallets' = RefreshedOptions(_searchOptionsForWallets)
     /\ UNCHANGED <<active, all, _hasAnyPending, updateBalance>>

\* the limit of the active wallet's search options, as the getter would return it
LimitOf(wallet) == WithSearchOptions(_searchOptionsForWallets, wallet)[wallet].limit

\* _refreshTransactionData, the loop: the limit and skip of requestParams, read from
\* this.searchOptions in the iteration of every wallet
RequestParams(wallet) ==
  IF active # NoWallet
    THEN [limit |-> WithSearchOptions(_searchOptionsForWallets, active)[active].limit,
          skip |-> WithSearchOptions(_searchOptionsForWallets, active)[active].skip]
    ELSE [limit |-> INITIAL_SEARCH_LIMIT, skip |-> SEARCH_SKIP]

_increaseSearchLimit ==
  /\ IF active # NoWallet
       THEN /\ LimitOf(active) < INITIAL_SEARCH_LIMIT + MaxLoadMore * SEARCH_LIMIT_INCREASE
            /\ RoomForRefresh
            /\ _searchOptionsForWallets' =
                 [WithSearchOptions(_searchOptionsForWallets, active)
                    EXCEPT ![active].limit = IncreasedLimit(@)]
            /\ requests' = RefreshedRequests(requests, transactionsRequests)
            /\ chains' = RefreshedChains(transactionsRequests)
       ELSE UNCHANGED <<_searchOptionsForWallets, requests, chains>>
  /\ UNCHANGED <<active, all, transactionsRequests, _hasAnyPending, updateBalance>>

\* a read of the computed searchOptions: the active wallet's pair is created
searchOptions ==
  /\ active # NoWallet
  /\ _searchOptionsForWallets' = WithSearchOptions(_searchOptionsForWallets, active)
  /\ UNCHANGED <<active, all, transactionsRequests, requests, _hasAnyPending, chains, updateBalance>>

\* a read of the computed hasAnyPending: the field _hasAnyPending is assigned when the
\* active wallet's pending request has a result
hasAnyPending ==
  /\ _hasAnyPending' = StickyPending
  /\ UNCHANGED <<active, all, transactionsRequests, requests, _searchOptionsForWallets,
                 chains, updateBalance>>

\* the wallets store makes a wallet active, or none
SetActive(wallet) ==
  /\ active' = wallet
  /\ active' # active
  /\ UNCHANGED <<all, transactionsRequests, requests, _searchOptionsForWallets,
                 _hasAnyPending, chains, updateBalance>>

\* the wallets store's list of wallets changes
SetAll(wallets) ==
  /\ all' = wallets
  /\ all' # all
  /\ UNCHANGED <<active, transactionsRequests, requests, _searchOptionsForWallets,
                 _hasAnyPending, chains, updateBalance>>

(***************************************************************************)
(* Transactions: completions of the fetches and steps of the chains.       *)
(***************************************************************************)
\* the bag of n copies of chain c
Copies(c, n) == [x \in {c} |-> n]

\* the copies of chain c that wait on one promise: all of them when the promise is
\* that of a bundle's request, one when it is that of a request made on the fly
Waiters(c) == IF c.req = 0 THEN 1 ELSE CopiesIn(c, chains)

\* the recent fetch of a bundle's request resolves
RecentResolved(id, transactions) ==
  /\ requests[id].recent.waiting
  /\ requests' = [requests EXCEPT ![id].recent = Resolve(@, transactions)]
  /\ UNCHANGED <<active, all, transactionsRequests, _searchOptionsForWallets,
                 _hasAnyPending, chains, updateBalance>>

\* the recent fetch of a bundle's request rejects
RecentRejected(id) ==
  /\ requests[id].recent.waiting
  /\ requests' = [requests EXCEPT ![id].recent = Reject(@)]
  /\ UNCHANGED <<active, all, transactionsRequests, _searchOptionsForWallets,
                 _hasAnyPending, chains, updateBalance>>

\* the pending fetch of a bundle's request resolves
PendingResolved(id, transactions) ==
  /\ requests[id].pending.waiting
  /\ requests' = [requests EXCEPT ![id].pending = Resolve(@, transactions)]
  /\ UNCHANGED <<active, all, transactionsRequests, _searchOptionsForWallets,
                 _hasAnyPending, chains, updateBalance>>

\* the pending fetch of a bundle's request rejects
PendingRejected(id) ==
  /\ requests[id].pending.waiting
  /\ requests' = [requests EXCEPT ![id].pending = Reject(@)]
  /\ UNCHANGED <<active, all, transactionsRequests, _searchOptionsForWallets,
                 _hasAnyPending, chains, updateBalance>>

\* allRequest.promise resolves: the first callback of every chain attached to it
\* invalidates and executes the wallet's pending request and asks for the date
AllResolved(c, transactions) ==
  /\ c \in BagToSet(chains)
  /\ c.pc = "all"
  /\ LET pendingRequest == FoundRequest(transactionsRequests, c.wallet)
         settled == IF c.req \in DOMAIN requests
                      THEN [requests EXCEPT ![c.req].all = Resolve(@, transactions)]
                      ELSE requests
     IN /\ requests' = IF pendingRequest # 0
                         THEN [settled EXCEPT ![pendingRequest].pending = Execute(@)]
                         ELSE settled
        /\ chains' = (chains (-) Copies(c, Waiters(c)))
                       (+) Copies([wallet |-> c.wallet, pc |-> "date", req |-> 0], Waiters(c))
  /\ UNCHANGED <<active, all, transactionsRequests, _searchOptionsForWallets,
                 _hasAnyPending, updateBalance>>

\* allRequest.promise rejects: the chains attached to it end in their catch
AllRejectedMutant(c) ==
  /\ c \in BagToSet(chains)
  /\ c.pc = "all"
  /\ requests' = IF c.req \in DOMAIN requests
                   THEN [requests EXCEPT ![c.req].all = Reject(@)]
                   ELSE requests
  /\ chains' = EmptyBag
  /\ UNCHANGED <<active, all, transactionsRequests, _searchOptionsForWallets,
                 _hasAnyPending, updateBalance>>
AllRejected(c) ==
  /\ c \in BagToSet(chains)
  /\ c.pc = "all"
  /\ requests' = IF c.req \in DOMAIN requests
                   THEN [requests EXCEPT ![c.req].all = Reject(@)]
                   ELSE requests
  /\ chains' = chains (-) Copies(c, Waiters(c))
  /\ UNCHANGED <<active, all, transactionsRequests, _searchOptionsForWallets,
                 _hasAnyPending, updateBalance>>

\* the second callback of a chain: walletsActions.updateBalance.trigger(updatedBalance)
\* when the chain's wallet is the active one
UpdateBalanceTriggeredMutant(c) == active # NoWallet
UpdateBalanceTriggered(c) == active # NoWallet /\ active = c.wallet

\* the triggers after the second callback of chain c ran
WithUpdateBalance(c) ==
  IF UpdateBalanceTriggered(c)
    THEN updateBalance \cup {[wallet |-> c.wallet, active |-> active]}
    ELSE updateBalance

\* getTxLastUpdatedDate resolves: the wallet's balance request is executed with the
\* date; with a cached balance for that date the chain goes on at once
DateResolved(c, sameDate) ==
  /\ c \in BagToSet(chains)
  /\ c.pc = "date"
  /\ LET balanceRequest == FoundRequest(transactionsRequests, c.wallet)
     IN IF balanceRequest # 0 /\ CacheHit(requests[balanceRequest].balance, sameDate)
          THEN /\ chains' = chains (-) Copies(c, 1)
               /\ updateBalance' = WithUpdateBalance(c)
               /\ UNCHANGED requests
          ELSE /\ chains' = (chains (-) Copies(c, 1))
                              (+) Copies([wallet |-> c.wallet, pc |-> "balance",
                                          req |-> balanceRequest], 1)
               /\ requests' = IF balanceRequest # 0
                                THEN [requests EXCEPT ![balanceRequest].balance = Execute(@)]
                                ELSE requests
               /\ UNCHANGED updateBalance
  /\ UNCHANGED <<active, all, transactionsRequests, _searchOptionsForWallets,
                 _hasAnyPending>>

\* getTxLastUpdatedDate rejects: the chain ends in its catch
DateRejected(c) ==
  /\ c \in BagToSet(chains)
  /\ c.pc = "date"
  /\ chains' = chains (-) Copies(c, 1)
  /\ UNCHANGED <<active, all, transactionsRequests, requests, _searchOptionsForWallets,
                 _hasAnyPending, updateBalance>>

\* the balance fetch resolves: the second callback of every chain waiting on it runs
BalanceResolved(c, balance) ==
  /\ c \in BagToSet(chains)
  /\ c.pc = "balance"
  /\ requests' = IF c.req \in DOMAIN requests
                   THEN [requests EXCEPT ![c.req].balance = Resolve(@, balance)]
                   ELSE requests
  /\ chains' = chains (-) Copies(c, Waiters(c))
  /\ updateBalance' = WithUpdateBalance(c)
  /\ UNCHANGED <<active, all, transactionsRequests, _searchOptionsForWallets,
                 _hasAnyPending>>

\* the balance fetch rejects: the chains waiting on it end in their catch
BalanceRejected(c) ==
  /\ c \in BagToSet(chains)
  /\ c.pc = "balance"
  /\ requests' = IF c.req \in DOMAIN requests
                   THEN [requests EXCEPT ![c.req].balance = Reject(@)]
                   ELSE requests
  /\ chains' = chains (-) Copies(c, Waiters(c))
  /\ UNCHANGED <<active, all, transactionsRequests, _searchOptionsForWallets,
                 _hasAnyPending, updateBalance>>

InitTx ==
  /\ active = NoWallet
  /\ all = {}
  /\ transactionsRequests = <<>>
  /\ requests = [id \in {} |-> NewBundleRequests]
  /\ _searchOptionsForWallets = [w \in {} |-> [limit |-> INITIAL_SEARCH_LIMIT, skip |-> SEARCH_SKIP]]
  /\ _hasAnyPending = FALSE
  /\ chains = EmptyBag
  /\ updateBalance = {}
  /\ seenPending = {}
  /\ recentParams = [wallet \in {} |-> [limit |-> INITIAL_SEARCH_LIMIT, skip |-> SEARCH_SKIP]]
  /\ lastTx = TxStep("other", <<>>, <<>>, <<>>)

(***************************************************************************)
(* Settings: computed values, reactions and handlers.                      *)
(***************************************************************************)
getProfileLocaleRequest == getRequests["locale"]
setProfileLocaleRequest == setRequests["locale"]
getTermsOfUseAcceptanceRequest == getRequests["terms"]
setTermsOfUseAcceptanceRequest == setRequests["terms"]

hasLoadedCurrentLocale ==
  getProfileLocaleRequest.wasExecuted /\ getProfileLocaleRequest.result # Null

isCurrentLocaleSetMutant == getProfileLocaleRequest.result # Null
isCurrentLocaleSet ==
  getProfileLocaleRequest.result # Null /\ getProfileLocaleRequest.result # ""

hasLoadedTermsOfUseAcceptance ==
  getTermsOfUseAcceptanceRequest.wasExecuted /\ getTermsOfUseAcceptanceRequest.result # Null

areTermsOfUseAccepted == getTermsOfUseAcceptanceRequest.result = "true"

_isOnTermsOfUsePage == currentRoute = TERMS_OF_USE

\* the value the computed currentLocale returns
CurrentLocaleValue == IF isCurrentLocaleSet THEN getProfileLocaleRequest.result ELSE "en-US"

\* the reactions: what each one reads, and whether it triggers when it runs
LanguageSelectionDeps == <<isLoading, hasLoadedCurrentLocale, isCurrentLocaleSet>>
LanguageSelectionTriggers == ~isLoading /\ hasLoadedCurrentLocale /\ ~isCurrentLocaleSet
TermsOfUseDeps == <<isCurrentLocaleSet, hasLoadedTermsOfUseAcceptance, areTermsOfUseAccepted>>
TermsOfUseTriggersMutant == hasLoadedTermsOfUseAcceptance /\ ~areTermsOfUseAccepted
TermsOfUseTriggers ==
  isCurrentLocaleSet /\ hasLoadedTermsOfUseAcceptance /\ ~areTermsOfUseAccepted
MainUiDeps == <<areTermsOfUseAccepted, currentRoute>>
MainUiTriggers == areTermsOfUseAccepted /\ _isOnTermsOfUsePage

\* registerReactions: every reaction runs once
_redirectsOfSetup ==
  goToRoute' = (IF LanguageSelectionTriggers' THEN {LANGUAGE_SELECTION} ELSE {})
                 \cup (IF TermsOfUseTriggers' THEN {TERMS_OF_USE} ELSE {})
                 \cup (IF MainUiTriggers' THEN {ROOT} ELSE {})

\* a reaction runs again in the step that changes a value it reads:
\* _redirectToLanguageSelectionIfNoLocaleSet,
\* _redirectToTermsOfUseScreenIfTermsNotAccepted, _redirectToMainUiAfterTermsAreAccepted
_redirects ==
  goToRoute' =
    (IF LanguageSelectionDeps' # LanguageSelectionDeps /\ LanguageSelectionTriggers'
       THEN {LANGUAGE_SELECTION} ELSE {})
    \cup (IF TermsOfUseDeps' # TermsOfUseDeps /\ TermsOfUseTriggers'
            THEN {TERMS_OF_USE} ELSE {})
    \cup (IF MainUiDeps' # MainUiDeps /\ MainUiTriggers' THEN {ROOT} ELSE {})

\* the record of a settings step
SettingsStep(op, setting) == [op |-> op, setting |-> setting]

\* the handlers of a setting that wait at pc
UpdatesAt(setting, pc) == CopiesIn([setting |-> setting, pc |-> pc], updates)
WithoutUpdatesAt(setting, pc) ==
  updates (-) [x \in {[setting |-> setting, pc |-> pc]} |-> UpdatesAt(setting, pc)]

\* the store of a fresh installation: no locale stored, terms not accepted
InitSettings ==
  /\ isSetup = FALSE
  /\ localStorage = [setting \in Settings |-> IF setting = "locale" THEN "" ELSE "false"]
  /\ getRequests = [setting \in Settings |-> NewRequest]
  /\ setRequests = [setting \in Settings |-> NewRequest]
  /\ updates = EmptyBag
  /\ isLoading = TRUE
  /\ currentRoute = ROOT
  /\ goToRoute = {}
  /\ written = {}
  /\ lastSettings = SettingsStep("init", "none")

\* setup(): the reactions run once, _updateMomentJsLocaleAfterLocaleChange reads
\* currentLocale, which executes the locale read, and _getTermsOfUseAcceptance
\* executes the terms read
setup ==
  /\ ~isSetup
  /\ isSetup' = TRUE
  /\ getRequests' = [setting \in Settings |->
                       ExecuteRequest(getRequests[setting], localStorage[setting])]
  /\ lastSettings' = SettingsStep("setup", "none")
  /\ UNCHANGED <<localStorage, setRequests, updates, isLoading, currentRoute, written>>
  /\ _redirectsOfSetup
  /\ UNCHANGED <<exportVars, txVars>>

\* the computed currentLocale is read: getProfileLocaleRequest.execute()
currentLocale ==
  /\ isSetup
  /\ getRequests' = [getRequests EXCEPT !["locale"] = ExecuteRequest(@, localStorage["locale"])]
  /\ lastSettings' = SettingsStep("currentLocale", "locale")
  /\ UNCHANGED <<isSetup, localStorage, setRequests, updates, isLoading, currentRoute, written>>
  /\ _redirects
  /\ UNCHANGED <<exportVars, txVars>>

\* the computed areTermsOfUseAccepted is read
ReadTermsOfUseAccepted ==
  /\ isSetup
  /\ lastSettings' = SettingsStep("areTermsOfUseAccepted", "terms")
  /\ UNCHANGED <<isSetup, localStorage, getRequests, setRequests, updates, isLoading,
                 currentRoute, written>>
  /\ _redirects
  /\ UNCHANGED <<exportVars, txVars>>

\* an update handler starts: await this.set...Request.execute(value)
StartUpdate(setting, value) ==
  /\ isSetup
  /\ BagCardinality(updates) < MaxUpdates
  /\ setRequests' = [setRequests EXCEPT ![setting] = ExecuteRequest(@, value)]
  /\ updates' = updates (+) SetToBag({[setting |-> setting, pc |-> "set"]})
  /\ lastSettings' = SettingsStep("update", setting)
  /\ UNCHANGED <<isSetup, localStorage, getRequests, isLoading, currentRoute, written>>
  /\ _redirects
  /\ UNCHANGED <<exportVars, txVars>>

_updateLocale(locale) == StartUpdate("locale", locale)

_acceptTermsOfUse == StartUpdate("terms", "true")

\* the write resolves: local storage holds the value, and every handler that awaited
\* it goes on to await this.get...Request.execute()
SetResolved(setting) ==
  /\ setRequests[setting].isExecuting
  /\ localStorage' = [localStorage EXCEPT ![setting] = setRequests[setting].call[1]]
  /\ setRequests' = [setRequests EXCEPT ![setting] = ResolveRequest(@, Undefined)]
  /\ getRequests' = [getRequests EXCEPT
                       ![setting] = ExecuteRequest(@, localStorage'[setting])]
  /\ updates' = WithoutUpdatesAt(setting, "set")
                  (+) [x \in {[setting |-> setting, pc |-> "get"]} |-> UpdatesAt(setting, "set")]
  /\ written' = written \cup {setting}
  /\ lastSettings' = SettingsStep("setResolved", setting)
  /\ UNCHANGED <<isSetup, isLoading, currentRoute>>
  /\ _redirects
  /\ UNCHANGED <<exportVars, txVars>>

\* the write rejects: the handlers that awaited it end
SetRejected(setting) ==
  /\ setRequests[setting].isExecuting
  /\ setRequests' = [setRequests EXCEPT ![setting] = RejectRequest(@)]
  /\ updates' = WithoutUpdatesAt(setting, "set")
  /\ lastSettings' = SettingsStep("setRejected", setting)
  /\ UNCHANGED <<isSetup, localStorage, getRequests, isLoading, currentRoute, written>>
  /\ _redirects
  /\ UNCHANGED <<exportVars, txVars>>

\* the read resolves with the value stored when it was called or with the value
\* stored now; the handlers that awaited it end.  A changed locale result makes the
\* reactions that read currentLocale run again, which executes the locale read again
GetResolved(setting, value) ==
  /\ getRequests[setting].isExecuting
  /\ value \in {getRequests[setting].call[1], localStorage[setting]}
  /\ LET resolved == ResolveRequest(getRequests[setting], value)
     IN getRequests' =
          [getRequests EXCEPT
             ![setting] = IF setting = "locale" /\ value # getRequests[setting].result
                            THEN ExecuteRequest(resolved, localStorage[setting])
                            ELSE resolved]
  /\ updates' = WithoutUpdatesAt(setting, "get")
  /\ lastSettings' = SettingsStep("getResolved", setting)
  /\ UNCHANGED <<isSetup, localStorage, setRequests, isLoading, currentRoute, written>>
  /\ _redirects
  /\ UNCHANGED <<exportVars, txVars>>

\* the read rejects: the handlers that awaited it end
GetRejected(setting) ==
  /\ getRequests[setting].isExecuting
  /\ getRequests' = [getRequests EXCEPT ![setting] = RejectRequest(@)]
  /\ updates' = WithoutUpdatesAt(setting, "get")
  /\ lastSettings' = SettingsStep("getRejected", setting)
  /\ UNCHANGED <<isSetup, localStorage, setRequests, isLoading, currentRoute, written>>
  /\ _redirects
  /\ UNCHANGED <<exportVars, txVars>>

\* the loading store changes isLoading
SetLoading(loading) ==
  /\ isSetup
  /\ loading # isLoading
  /\ isLoading' = loading
  /\ lastSettings' = SettingsStep("isLoading", "none")
  /\ UNCHANGED <<isSetup, localStorage, getRequests, setRequests, updates, currentRoute,
                 written>>
  /\ _redirects
  /\ UNCHANGED <<exportVars, txVars>>

\* the app store changes currentRoute
SetRoute(route) ==
  /\ isSetup
  /\ route # currentRoute
  /\ currentRoute' = route
  /\ lastSettings' = SettingsStep("currentRoute", "none")
  /\ UNCHANGED <<isSetup, localStorage, getRequests, setRequests, updates, isLoading,
                 written>>
  /\ _redirects
  /\ UNCHANGED <<exportVars, txVars>>

NextSettings ==
  \/ setup
  \/ currentLocale
  \/ ReadTermsOfUseAccepted
  \/ \E locale \in Locales \ {""} : _updateLocale(locale)
  \/ _acceptTermsOfUse
  \/ \E setting \in Settings : SetResolved(setting)
  \/ \E setting \in Settings : SetRejected(setting)
  \/ \E setting \in Settings : \E value \in ValuesOf(setting) : GetResolved(setting, value)
  \/ \E setting \in Settings : GetRejected(setting)
  \/ \E loading \in BOOLEAN : SetLoading(loading)
  \/ \E route \in Routes : SetRoute(route)

Init == InitExport /\ InitTx /\ InitSettings

SpecExport == Init /\ [][NextExport]_vars

(***************************************************************************)
(* Transactions: the specifications.  The store's parts (bundle set, search *)
(* options, computed views) are explored in turn, each with the wallets    *)
(* store and the api reduced to the inputs that part depends on.           *)
(***************************************************************************)
Other == TxStep("other", <<>>, <<>>, <<>>)

\* a step that is not recorded
Quiet(A) == A /\ lastTx' = Other /\ UNCHANGED <<seenPending, recentParams>> /\ UNCHANGED <<exportVars, settingsVars>>

\* a step of the views' specification: seenPending is kept by the step itself
Seen(A) == A /\ UNCHANGED <<lastTx, recentParams>> /\ UNCHANGED <<exportVars, settingsVars>>

\* the wallets store holds the wallet w1 or no wallet
OneWalletStore == {{}, {"w1"}}
\* the wallets store holds at most one wallet
SingleWalletStores == {{}} \cup {{w} : w \in Wallets}
\* the lists of at most one wallet id
ShortWalletIdLists == {walletIds \in WalletIdLists : Len(walletIds) <= MaxLen - 1}
\* the api resolves a fetch of transactions with one transaction
OneTransaction == {<<"tx">>}

\* the bundle set: updateObservedWallets with every list, a wallets store that holds
\* w1 or nothing, no active wallet, every outcome of every fetch
NextBundles ==
  \/ \E walletIds \in WalletIdLists :
       /\ updateObservedWallets(walletIds)
       /\ lastTx' = TxStep("updateObservedWallets", walletIds, transactionsRequests, requests)
       /\ UNCHANGED <<seenPending, recentParams>> /\ UNCHANGED <<exportVars, settingsVars>>
  \/ \E wallets \in OneWalletStore : Quiet(SetAll(wallets))
  \/ \E id \in DOMAIN requests : \E transactions \in TransactionLists :
       Quiet(RecentResolved(id, transactions))
  \/ \E id \in DOMAIN requests : Quiet(RecentRejected(id))
  \/ \E id \in DOMAIN requests : \E transactions \in TransactionLists :
       Quiet(PendingResolved(id, transactions))
  \/ \E id \in DOMAIN requests : Quiet(PendingRejected(id))
  \/ \E c \in BagToSet(chains) : \E transactions \in TransactionLists :
       Quiet(AllResolved(c, transactions))
  \/ \E c \in BagToSet(chains) : Quiet(AllRejected(c))
  \/ \E c \in BagToSet(chains) : \E sameDate \in BOOLEAN : Quiet(DateResolved(c, sameDate))
  \/ \E c \in BagToSet(chains) : Quiet(DateRejected(c))
  \/ \E c \in BagToSet(chains) : \E balance \in Balances : Quiet(BalanceResolved(c, balance))
  \/ \E c \in BagToSet(chains) : Quiet(BalanceRejected(c))

SpecBundles == Init /\ [][NextBundles]_vars

\* the search options: every handler, any active wallet and any wallets store, an
\* api whose fetches of transactions all fail
NextLimits ==
  \/ \E walletIds \in WalletIdLists : Quiet(updateObservedWallets(walletIds))
  \/ Quiet(_increaseSearchLimit)
  \/ Quiet(searchOptions)
  \/ \E wallet \in Wallets \cup {NoWallet} : Quiet(SetActive(wallet))
  \/ \E wallets \in SUBSET Wallets : Quiet(SetAll(wallets))
  \/ \E id \in DOMAIN requests : Quiet(RecentRejected(id))
  \/ \E c \in BagToSet(chains) : Quiet(AllRejected(c))

SpecLimits == Init /\ [][NextLimits]_vars

\* the computed views: lists of at most one wallet id, a wallets store of at most
\* one wallet, any active wallet, reads of hasAnyPending; the fetches of recent and
\* of all transactions return one transaction, the fetch of pending transactions
\* ends either way and the fetch of the last-update date fails.
\* seenPending gains the active wallet when a read computes true from its cached
\* pending result, and loses a wallet when an empty pending result is cached for it
NextViews ==
  \/ \E walletIds \in ShortWalletIdLists :
       Seen(updateObservedWallets(walletIds) /\ UNCHANGED seenPending)
  \/ Seen(/\ hasAnyPending
          /\ seenPending' = IF PendingCachedTrue THEN seenPending \cup {active}
                                                 ELSE seenPending)
  \/ \E wallet \in Wallets \cup {NoWallet} : Seen(SetActive(wallet) /\ UNCHANGED seenPending)
  \/ \E wallets \in SingleWalletStores : Seen(SetAll(wallets) /\ UNCHANGED seenPending)
  \/ \E id \in DOMAIN requests : \E transactions \in OneTransaction :
       Seen(RecentResolved(id, transactions) /\ UNCHANGED seenPending)
  \/ \E id \in DOMAIN requests : \E transactions \in TransactionLists :
       Seen(/\ PendingResolved(id, transactions)
            /\ seenPending' =
                 IF transactions = <<>>
                   THEN seenPending \ {w \in Wallets : FoundRequest(transactionsRequests, w) = id}
                   ELSE seenPending)
  \/ \E c \in BagToSet(chains) : \E transactions \in OneTransaction :
       Seen(AllResolved(c, transactions) /\ UNCHANGED seenPending)
  \/ \E id \in DOMAIN requests : Seen(PendingRejected(id) /\ UNCHANGED seenPending)
  \/ \E c \in BagToSet(chains) : Seen(DateRejected(c) /\ UNCHANGED seenPending)

SpecViews == Init /\ [][NextViews]_vars

\* the refresh chains: lists of at most one wallet id, any active wallet and any
\* wallets store (a wallet of the store that is not tracked is refreshed through
\* requests made on the fly); the fetch of recent transactions is left pending, the
\* other calls end either way
NextChains ==
  \/ \E walletIds \in ShortWalletIdLists : Quiet(updateObservedWallets(walletIds))
  \/ \E wallet \in Wallets \cup {NoWallet} : Quiet(SetActive(wallet))
  \/ \E wallets \in SUBSET Wallets : Quiet(SetAll(wallets))
  \/ \E c \in BagToSet(chains) : \E transactions \in OneTransaction :
       Quiet(AllResolved(c, transactions))
  \/ \E c \in BagToSet(chains) : Quiet(AllRejected(c))
  \/ \E id \in DOMAIN requests : \E transactions \in OneTransaction :
       Quiet(PendingResolved(id, transactions))
  \/ \E id \in DOMAIN requests : Quiet(PendingRejected(id))
  \/ \E c \in BagToSet(chains) : \E sameDate \in BOOLEAN : Quiet(DateResolved(c, sameDate))
  \/ \E c \in BagToSet(chains) : Quiet(DateRejected(c))
  \/ \E c \in BagToSet(chains) : \E balance \in Balances : Quiet(BalanceResolved(c, balance))
  \/ \E c \in BagToSet(chains) : Quiet(BalanceRejected(c))

SpecChains == Init /\ [][NextChains]_vars

\* the wallet of the bundle that holds the requests id
OwnerOf(id) ==
  transactionsRequests[CHOOSE k \in DOMAIN transactionsRequests :
                         transactionsRequests[k].req = id].walletId

\* a step in which a call of a chain of wallet failed: the record names the call
Caught(A, call, wallet) ==
  /\ A
  /\ lastTx' = TxStep(call, <<wallet>>, <<>>, <<>>)
  /\ UNCHANGED <<seenPending, recentParams>> /\ UNCHANGED <<exportVars, settingsVars>>

\* the failures of the refresh chains: as above with a wallets store that holds both
\* wallets or none, and every failed call recorded
NextCatch ==
  \/ \E walletIds \in ShortWalletIdLists : Quiet(updateObservedWallets(walletIds))
  \/ \E wallet \in Wallets \cup {NoWallet} : Quiet(SetActive(wallet))
  \/ \E wallets \in {{}, Wallets} : Quiet(SetAll(wallets))
  \/ \E c \in BagToSet(chains) : \E transactions \in OneTransaction :
       Quiet(AllResolved(c, transactions))
  \/ \E c \in BagToSet(chains) : Caught(AllRejected(c), "all", c.wallet)
  \/ \E id \in DOMAIN requests : \E transactions \in OneTransaction :
       Quiet(PendingResolved(id, transactions))
  \/ \E id \in DOMAIN requests : Caught(PendingRejected(id), "pending", OwnerOf(id))
  \/ \E c \in BagToSet(chains) : \E sameDate \in BOOLEAN : Quiet(DateResolved(c, sameDate))
  \/ \E c \in BagToSet(chains) : Caught(DateRejected(c), "date", c.wallet)
  \/ \E c \in BagToSet(chains) : \E balance \in Balances : Quiet(BalanceResolved(c, balance))
  \/ \E c \in BagToSet(chains) : Caught(BalanceRejected(c), "balance", c.wallet)

SpecCatch == Init /\ [][NextCatch]_vars

\* a step that refreshes (or not): the requestParams of its recent fetches are kept
Recorded(A, refreshed) ==
  /\ A
  /\ lastTx' = Other
  /\ recentParams' = IF refreshed THEN [wallet \in all |-> RequestParams(wallet)']
                                  ELSE recentParams
  /\ UNCHANGED seenPending /\ UNCHANGED <<exportVars, settingsVars>>

\* the requestParams: no wallet tracked, any active wallet and any wallets store, an
\* api whose all fetches fail
NextParams ==
  \/ Recorded(updateObservedWallets(<<>>), TRUE)
  \/ Recorded(_increaseSearchLimit, active # NoWallet)
  \/ Quiet(searchOptions)
  \/ \E wallet \in Wallets \cup {NoWallet} : Quiet(SetActive(wallet))
  \/ \E wallets \in SUBSET Wallets : Quiet(SetAll(wallets))
  \/ \E c \in BagToSet(chains) : Quiet(AllRejected(c))

SpecParams == Init /\ [][NextParams]_vars

\* the wallet ids a list holds
Range(walletIds) == {walletIds[k] : k \in DOMAIN walletIds}

\* the chains of removed wallets: updateObservedWallets is called with the ids of the
\* wallets the store holds, so every chain in flight belongs to a wallet that was
\* tracked when the chain started; any active wallet, every call resolves
NextRemoved ==
  \/ \E walletIds \in WalletIdLists :
       all = Range(walletIds) /\ Quiet(updateObservedWallets(walletIds))
  \/ \E wallet \in Wallets \cup {NoWallet} : Quiet(SetActive(wallet))
  \/ \E wallets \in SUBSET Wallets : Quiet(SetAll(wallets))
  \/ \E c \in BagToSet(chains) : \E transactions \in OneTransaction :
       Quiet(AllResolved(c, transactions))
  \/ \E c \in BagToSet(chains) : \E sameDate \in BOOLEAN : Quiet(DateResolved(c, sameDate))
  \/ \E c \in BagToSet(chains) : \E balance \in Balances : Quiet(BalanceResolved(c, balance))

SpecRemoved == Init /\ [][NextRemoved]_vars

\* the settings store: every handler, read and reaction, every outcome of the reads
\* and writes of local storage
SpecSettings == Init /\ [][NextSettings]_vars

(***************************************************************************)
(* Claims about the export pipeline, checked under SpecExport.             *)
(***************************************************************************)
\* an attempt is settled when its row fetch, its timer and its file export are over
Settled(i) == attempts[i].pc \in {"done", "failed", "rejected"}

\* the row fetch of attempt i returned an absent result or zero rows
ReturnedNoRows(i) ==
  /\ attempts[i].rowsPromise = Resolved
  /\ (attempts[i].respTxRows.isNull \/ attempts[i].respTxRows.rows = <<>>)

\* C2: every export attempt leaves the Exporting state: once every attempt that was
\* started has settled (row fetch, timer and file export all over, whatever their
\* outcome), isExporting is false.
C2_ExportLeavesExporting ==
  (\A i \in DOMAIN attempts : Settled(i)) => ~isExporting

\* C3: closeExportTransactionDialog is a no-op while isExporting is true (no close
\* signal, isExporting and exportError unchanged); when isExporting is false it
\* emits the close signal and leaves isExporting false and exportError unset.
C3_CloseIsNoOpWhileExporting ==
  last.op = "close" =>
    IF last.pre.isExporting
      THEN ExportView = last.pre
      ELSE /\ closeActiveDialog = last.pre.closeActiveDialog + 1
           /\ ~isExporting
           /\ exportError \in Unset

\* C3 witness: a close was requested while an export was running and an error of an
\* earlier attempt was on display.
C3_Witness ==
  /\ last.op = "close"
  /\ last.pre.isExporting
  /\ last.pre.exportError = NoTransactionsFound

\* C4: an attempt whose row fetch returned zero rows (or an absent result) ends
\* failed with the "no transactions found" error, its file export is never
\* executed, and when it settles exportError is that error and isExporting is false.
C4_NoRowsYieldsNoTransactionsFound ==
  /\ \A i \in DOMAIN attempts :
       ReturnedNoRows(i) =>
         /\ attempts[i].pc = "failed"
         /\ attempts[i].thrown = NoTransactionsFound
  /\ (last.op = "rowsResolved" /\ ReturnedNoRows(last.attempt)) =>
       /\ exportError = NoTransactionsFound
       /\ ~isExporting

\* C4 witness: an attempt with an empty (not absent) list of rows has just settled
\* while another attempt had set the flag again.
C4_Witness ==
  /\ last.op = "rowsResolved"
  /\ ReturnedNoRows(last.attempt)
  /\ ~attempts[last.attempt].respTxRows.isNull
  /\ last.pre.isExporting
  /\ Len(attempts) > 1

\* C5: an attempt in which a non-domain error is thrown ends with exportError the
\* generic UnexpectedError and isExporting false; a thrown domain error is stored
\* unchanged.
C5_ThrownErrorIsClassified ==
  (last.op \in {"rowsRejected", "exportRejected"}) =>
    /\ ~isExporting
    /\ attempts[last.attempt].thrown = RawError => exportError = UnexpectedError
    /\ attempts[last.attempt].thrown = ApiError => exportError = ApiError

\* C6: the export state is reset at the start and at the end of each attempt: a
\* starting attempt clears the exportError of an earlier one, and after an attempt
\* that succeeds isExporting is false and exportError is unset.
C6_ExportStateResetPerAttempt ==
  /\ last.op = "start" => (isExporting /\ exportError \in Unset)
  /\ last.op = "exportResolved" => (~isExporting /\ exportError \in Unset)

(***************************************************************************)
(* Claims about the bundle set, checked under SpecBundles.                 *)
(***************************************************************************)
\* the wallet ids of a bundle set, in order
Ids(bundles) == [k \in DOMAIN bundles |-> bundles[k].walletId]


\* the cached results of a bundle's four requests
Results(bundle) ==
  <<bundle.recent.result, bundle.all.result, bundle.pending.result, bundle.balance.result>>

\* C1: immediately after updateObservedWallets(W) the ids of the tracked bundle set
\* are exactly W, in the order and with the repetitions of W: no id outside W is
\* left over and no id of W is missing.
C1_TrackedIdsAreGivenIds ==
  lastTx.op = "updateObservedWallets" => Ids(transactionsRequests) = lastTx.walletIds

\* C1 witness: the call dropped a tracked wallet and added a wallet not tracked before.
C1_Witness ==
  /\ lastTx.op = "updateObservedWallets"
  /\ \E w \in Range(Ids(lastTx.transactionsRequests)) : w \notin Range(lastTx.walletIds)
  /\ \E w \in Range(lastTx.walletIds) : w \notin Range(Ids(lastTx.transactionsRequests))

\* C8 as stated: after updateObservedWallets every bundle of the set holds request
\* objects created by the call, none of them an object of the previous bundle set.
C8_EveryBundleIsFresh ==
  lastTx.op = "updateObservedWallets" =>
    \A k \in DOMAIN transactionsRequests :
      transactionsRequests[k].req \notin DOMAIN lastTx.requests

\* C8 amended: after updateObservedWallets the bundle of an id that was tracked
\* before holds the request objects of that id's previous bundle, cached results
\* included; the bundle of an id that was not tracked holds new request objects
\* without results; the request objects of ids no longer present are dropped.
C8_BundlesReusedOrFresh ==
  lastTx.op = "updateObservedWallets" =>
    /\ \A k \in DOMAIN transactionsRequests :
         LET foundRequest == FoundRequest(lastTx.transactionsRequests,
                                          transactionsRequests[k].walletId)
             req == transactionsRequests[k].req
         IN IF foundRequest # 0
              THEN /\ req = foundRequest
                   /\ Results(requests[req]) = Results(lastTx.requests[req])
              ELSE /\ req \notin DOMAIN lastTx.requests
                   /\ Results(requests[req]) = <<None, None, None, None>>
    /\ \A j \in DOMAIN lastTx.transactionsRequests :
         lastTx.transactionsRequests[j].walletId \notin Range(lastTx.walletIds)
           => lastTx.transactionsRequests[j].req \notin DOMAIN requests

\* C8 witness: the call was given an id tracked before whose bundle had a cached
\* result, and an id that was not tracked.
C8_Witness ==
  /\ lastTx.op = "updateObservedWallets"
  /\ \E k \in DOMAIN transactionsRequests :
       /\ transactionsRequests[k].req \in DOMAIN lastTx.requests
       /\ lastTx.requests[transactionsRequests[k].req].recent.result # None
  /\ \E k \in DOMAIN transactionsRequests :
       transactionsRequests[k].req \notin DOMAIN lastTx.requests

(***************************************************************************)
(* Claims about the search options, checked under SpecLimits.              *)
(***************************************************************************)
\* C7: a call of loadMoreTransactions with a wallet active increases the limit of
\* that wallet's search options by exactly SEARCH_LIMIT_INCREASE, and no step of
\* the store removes a wallet's search options or decreases their limit.
C7_LimitGrowsByIncrease ==
  [][/\ (_increaseSearchLimit /\ active # NoWallet)
          => LimitOf(active)' = LimitOf(active) + SEARCH_LIMIT_INCREASE
     /\ \A w \in DOMAIN _searchOptionsForWallets :
          /\ w \in DOMAIN _searchOptionsForWallets'
          /\ _searchOptionsForWallets'[w].limit >= _searchOptionsForWallets[w].limit]_vars

\* C7 witness: loadMoreTransactions ran twice for one wallet while another wallet
\* has search options of its own.
C7_Witness ==
  \E w \in DOMAIN _searchOptionsForWallets :
    /\ _searchOptionsForWallets[w].limit = INITIAL_SEARCH_LIMIT + 2 * SEARCH_LIMIT_INCREASE
    /\ \E v \in DOMAIN _searchOptionsForWallets : v # w

(***************************************************************************)
(* Claims about the computed views, checked under SpecViews.               *)
(***************************************************************************)
\* C9: the views recent, hasAny, hasAnyPending and totalAvailable return [], false,
\* false and 0 when no wallet is active, and each returns its default when the
\* active wallet's request it reads has no cached result.
C9_ViewsReturnDefaults ==
  /\ active = NoWallet =>
       (recent = <<>> /\ ~hasAny /\ ~HasAnyPendingValue /\ totalAvailable = 0)
  /\ (active # NoWallet /\ _getTransactionsRecentRequest(active).result = None) =>
       (recent = <<>> /\ ~hasAny)
  /\ (active # NoWallet /\ _getTransactionsAllRequest(active).result = None) =>
       totalAvailable = 0
  /\ (active # NoWallet /\ _getTransactionsPendingRequest(active).result = None) =>
       ~HasAnyPendingValue

\* C10: once a read of hasAnyPending computed true from a cached pending result of
\* the active wallet, and no empty pending result was cached for that wallet since,
\* a read made while a pending fetch of that wallet is in flight returns true.
C10_NoFlickerDuringRefetch ==
  (/\ active \in seenPending
   /\ _getTransactionsPendingRequest(active).waiting) => HasAnyPendingValue

(***************************************************************************)
(* Claims about the refresh chains, checked under SpecChains.              *)
(***************************************************************************)
\* C11: every wallets.updateBalance trigger was made for the wallet that was the
\* active one at the moment of the trigger.
C11_BalanceEventOnlyForActiveWallet ==
  \A e \in updateBalance : e.wallet = e.active

\* C11 witness: triggers were made for both wallets, so the active wallet changed
\* between two balance fetches, and a chain of the wallet that is not active now is
\* waiting for its balance.
C11_Witness ==
  /\ Cardinality(updateBalance) = 2
  /\ \E c \in BagToSet(chains) : c.pc = "balance" /\ c.wallet # active

\* the calls of a chain that can fail
ChainCalls == {"all", "pending", "date", "balance"}

\* C12: a step in which a call of one wallet's chain (all, pending, date, balance)
\* fails changes only that wallet: it triggers no balance update, leaves the chains
\* and the requests of every other wallet as they were, and leaves the wallets store,
\* the tracked set and the search options alone; a failed pending fetch leaves every
\* chain as it was, that of its own wallet included.
C12_FailureStaysInItsChain ==
  [][lastTx'.op \in ChainCalls =>
       LET wallet == lastTx'.walletIds[1]
       IN /\ updateBalance' = updateBalance
          /\ \A d \in BagToSet(chains) \cup BagToSet(chains') :
               d.wallet # wallet => CopiesIn(d, chains') = CopiesIn(d, chains)
          /\ DOMAIN requests' = DOMAIN requests
          /\ \A id \in DOMAIN requests :
               OwnerOf(id) # wallet => requests'[id] = requests[id]
          /\ UNCHANGED <<active, all, transactionsRequests, _searchOptionsForWallets,
                         _hasAnyPending>>
          /\ lastTx'.op = "pending" => chains' = chains]_vars

\* C12 witness: the all fetch of w1 has just failed while the chain of w2, started
\* by the same kind of refresh, waits for its balance with w2 active, and a balance
\* update of w2 was triggered before.
C12_Witness ==
  /\ lastTx.op = "all" /\ lastTx.walletIds = <<"w1">>
  /\ active = "w2"
  /\ \E d \in BagToSet(chains) : d.wallet = "w2" /\ d.pc = "balance"
  /\ [wallet |-> "w2", active |-> "w2"] \in updateBalance

(***************************************************************************)
(* Claims about the settings store, checked under SpecSettings.            *)
(***************************************************************************)
\* the locale read has completed and its result is the empty locale
LocaleReadAndUnset ==
  /\ isSetup
  /\ getRequests["locale"].wasExecuted
  /\ getRequests["locale"].result = ""

\* C13, as stated: a step triggers the redirect to the language selection only if it
\* ends with the locale read completed and no locale set, and every step that makes
\* this true triggers it.
C13_RedirectIffLocaleReadAndUnset ==
  [][/\ LANGUAGE_SELECTION \in goToRoute' => LocaleReadAndUnset'
     /\ LocaleReadAndUnset' /\ ~LocaleReadAndUnset => LANGUAGE_SELECTION \in goToRoute']_vars

\* C13, amended: a step triggers the redirect to the language selection only if it
\* ends with the app not loading, the locale read completed and no locale set (so
\* never while the first read is pending), and every step that makes this true, the
\* end of loading included, triggers it.
C13_RedirectIffLoadedAndLocaleUnset ==
  [][/\ LANGUAGE_SELECTION \in goToRoute' => ~isLoading' /\ LocaleReadAndUnset'
     /\ (~isLoading' /\ LocaleReadAndUnset') /\ ~(~isLoading /\ LocaleReadAndUnset)
          => LANGUAGE_SELECTION \in goToRoute']_vars

\* C13 witness: the locale read completed with no locale while the app was loading,
\* and the redirect is triggered by the step that ends loading.
C13_Witness ==
  /\ LANGUAGE_SELECTION \in goToRoute
  /\ lastSettings.op = "isLoading"
  /\ getRequests["locale"].result = ""

\* the computed a view reads for a setting
ReadOf(setting) == IF setting = "locale" THEN "currentLocale" ELSE "areTermsOfUseAccepted"

\* C14: whenever a computed of a setting is read after the write of an update of that
\* setting succeeded, the cached result of the setting's read request is the value
\* local storage holds, that is the value written last.
C14_ReadResultHoldsWrittenValue ==
  \A setting \in Settings :
    setting \in written /\ lastSettings.op = ReadOf(setting)
      => getRequests[setting].result = localStorage[setting]

\* C15: a step triggers the redirect to the terms of use only if it ends with a locale
\* set, the terms read completed and its result not true; a result of true stays, so
\* no such redirect follows it; a step triggers the redirect to the root only if it
\* ends with the terms accepted on the terms-of-use route, and every step that makes
\* this true triggers it.
C15_TermsOfUseRedirects ==
  [][/\ TERMS_OF_USE \in goToRoute' =>
          /\ getRequests'["locale"].result \notin {Null, ""}
          /\ getRequests'["terms"].wasExecuted
          /\ getRequests'["terms"].result \notin {Null, "true"}
     /\ getRequests["terms"].result = "true" => getRequests'["terms"].result = "true"
     /\ ROOT \in goToRoute' =>
          getRequests'["terms"].result = "true" /\ currentRoute' = TERMS_OF_USE
     /\ /\ getRequests'["terms"].result = "true" /\ currentRoute' = TERMS_OF_USE
        /\ ~(getRequests["terms"].result = "true" /\ currentRoute = TERMS_OF_USE)
        => ROOT \in goToRoute']_vars

\* C15 witness: the terms were accepted through acceptTermsOfUse on the terms-of-use
\* route, and the step that caches the acceptance triggers the redirect to the root.
C15_Witness ==
  /\ ROOT \in goToRoute
  /\ lastSettings = SettingsStep("getResolved", "terms")
  /\ "terms" \in written
  /\ currentRoute = TERMS_OF_USE

(***************************************************************************)
(* Claims about the order of the steps of a refresh chain (SpecChains).    *)
(***************************************************************************)
\* a chain of wallet waiting at pc goes on or ends in this step
Leaves(wallet, pc) ==
  \E c \in BagToSet(chains) :
    c.wallet = wallet /\ c.pc = pc /\ CopiesIn(c, chains') < CopiesIn(c, chains)

\* a chain of wallet arrives at pc in this step
Arrives(wallet, pc) ==
  \E d \in BagToSet(chains') :
    d.wallet = wallet /\ d.pc = pc /\ CopiesIn(d, chains') > CopiesIn(d, chains)

\* request kind of a bundle starts executing in this step
Starts(id, kind) ==
  /\ id \in DOMAIN requests'
  /\ requests'[id][kind].waiting
  /\ id \in DOMAIN requests => ~requests[id][kind].waiting

\* C16: the steps of one wallet's chain happen in order.  The pending request of a
\* tracked wallet starts executing only in a step in which a chain of that wallet
\* leaves its wait for the all fetch; a chain moves on to the date only from that
\* wait, with the all fetch resolved and the wallet's pending request executed; the
\* balance request starts executing, and a chain starts to wait for the balance,
\* only when a chain of that wallet leaves its wait for the date; and a balance
\* update is triggered only for the wallet of a chain that leaves its wait for the
\* balance with the fetch resolved, or its wait for the date with a cached balance.
C16_ChainStepsInOrder ==
  [][/\ \A id \in DOMAIN requests' :
          /\ Starts(id, "pending") => id \in DOMAIN requests /\ Leaves(OwnerOf(id), "all")
          /\ Starts(id, "balance") => id \in DOMAIN requests /\ Leaves(OwnerOf(id), "date")
     /\ \A wallet \in Wallets :
          /\ Arrives(wallet, "date") =>
               /\ Leaves(wallet, "all")
               /\ \A c \in BagToSet(chains) :
                    /\ c.wallet = wallet /\ c.pc = "all" /\ c.req \in DOMAIN requests
                    /\ CopiesIn(c, chains') < CopiesIn(c, chains)
                    => requests'[c.req].all.result # None /\ ~requests'[c.req].all.waiting
               /\ FoundRequest(transactionsRequests, wallet) # 0 =>
                    requests'[FoundRequest(transactionsRequests, wallet)].pending.waiting
          /\ Arrives(wallet, "balance") => Leaves(wallet, "date")
          /\ (\E e \in updateBalance' \ updateBalance : e.wallet = wallet) =>
               \/ /\ Leaves(wallet, "balance")
                  /\ \A c \in BagToSet(chains) :
                       /\ c.wallet = wallet /\ c.pc = "balance" /\ c.req \in DOMAIN requests
                       /\ CopiesIn(c, chains') < CopiesIn(c, chains)
                       => requests'[c.req].balance.result # None
               \/ /\ Leaves(wallet, "date")
                  /\ FoundRequest(transactionsRequests, wallet) # 0
                  /\ requests[FoundRequest(transactionsRequests, wallet)].balance.result # None]_vars

\* C16 witness: the chains of two wallets are interleaved: the chain of w1 waits for
\* its balance, after its all fetch, its pending request and the date, while the
\* chain of w2 still waits for the date, and a balance update of w1 was triggered.
C16_Witness ==
  /\ \E c \in BagToSet(chains) : c.wallet = "w1" /\ c.pc = "balance" /\ c.req # 0
  /\ \E c \in BagToSet(chains) : c.wallet = "w2" /\ c.pc = "date"
  /\ FoundRequest(transactionsRequests, "w1") # 0
  /\ requests[FoundRequest(transactionsRequests, "w1")].pending.waiting
  /\ [wallet |-> "w1", active |-> "w1"] \in updateBalance

\* C17: a step of a chain whose wallet has no bundle in the tracked set (the wallet
\* was removed while the chain was in flight) changes no request of a tracked bundle
\* and triggers no balance update for that wallet.
C17_RemovedWalletChainIsIgnored ==
  [][\A wallet \in Wallets :
       /\ FoundRequest(transactionsRequests, wallet) = 0
       /\ \E pc \in {"all", "date", "balance"} : Leaves(wallet, pc)
       => /\ requests' = requests
          /\ \A e \in updateBalance' \ updateBalance : e.wallet # wallet]_vars

\* C18: right after updateObservedWallets the recent and the all request of every
\* tracked bundle are executing, and no chain waits for an all fetch that was issued
\* through a request made on the fly, that is for a wallet id without a bundle
\* (checked under SpecBundles).
C18_RefreshesExactlyTrackedWallets ==
  lastTx.op = "updateObservedWallets" =>
    /\ \A k \in DOMAIN transactionsRequests :
         /\ requests[transactionsRequests[k].req].recent.waiting
         /\ requests[transactionsRequests[k].req].all.waiting
    /\ \A c \in BagToSet(chains) : c.pc = "all" => c.req # 0

\* the search options of a wallet, those it is given on first access when it has none
OwnOptions(wallet) ==
  IF wallet \in DOMAIN _searchOptionsForWallets
    THEN _searchOptionsForWallets[wallet]
    ELSE [limit |-> INITIAL_SEARCH_LIMIT, skip |-> SEARCH_SKIP]

\* C19: the recent request of every wallet of the last refresh was executed with the
\* limit and skip of that wallet's own search options (checked under SpecParams).
C19_RecentExecutedWithOwnOptions ==
  \A wallet \in DOMAIN recentParams : recentParams[wallet] = OwnOptions(wallet)

(***************************************************************************)
(* Claims about the order of the steps of an export (SpecExport).          *)
(***************************************************************************)
\* C20: the file export of an attempt starts only in the step of the timer of that
\* attempt, after its row fetch resolved with at least one row; a dialog close that
\* is not the close handler's is signalled only by the step in which the file export
\* of an attempt resolves, together with clearing isExporting; an attempt that failed
\* (no rows, a rejected row fetch, a rejected file export) takes no further step,
\* and the step in which it fails signals no dialog close.
C20_ExportStepsInOrder ==
  [][/\ \A i \in DOMAIN attempts' :
          /\ attempts'[i].pc = "exportFile"
          /\ i \in DOMAIN attempts => attempts[i].pc # "exportFile"
          => /\ i \in DOMAIN attempts
             /\ attempts[i].pc = "delay"
             /\ attempts[i].rowsPromise = Resolved
             /\ ~attempts[i].respTxRows.isNull
             /\ Len(attempts[i].respTxRows.rows) >= 1
             /\ last' = Step("timer", i)
     /\ closeActiveDialog' # closeActiveDialog /\ last'.op # "close"
          => /\ last'.op = "exportResolved"
             /\ attempts[last'.attempt].pc = "exportFile"
             /\ attempts'[last'.attempt].pc = "done"
             /\ ~isExporting'
             /\ closeActiveDialog' = closeActiveDialog + 1
     /\ \A i \in DOMAIN attempts :
          attempts[i].pc \in {"failed", "rejected"} => attempts'[i] = attempts[i]
     /\ \A i \in DOMAIN attempts :
          /\ attempts[i].pc \notin {"failed", "rejected"}
          /\ attempts'[i].pc \in {"failed", "rejected"}
          => closeActiveDialog' = closeActiveDialog]_vars

\* C20 witness: the file export of one attempt has just resolved and signalled the
\* dialog close, while another attempt failed without a signal.
C20_Witness ==
  /\ last.op = "exportResolved"
  /\ attempts[last.attempt].pc = "done"
  /\ closeActiveDialog = 1
  /\ \E j \in DOMAIN attempts : attempts[j].pc = "failed"

\* C21: isExporting is true in every state in which an export attempt is unfinished
\* (its row fetch, its delay or its file export is pending), overlapping attempts
\* included, so that closeExportTransactionDialog cannot signal the dialog close
\* while an export is unfinished.
C21_ExportingWhileUnfinished ==
  (\E i \in DOMAIN attempts : ~Settled(i)) => isExporting

====
